---- MODULE Spec2Model ----
(***************************************************************************)
(* A model of the mtree directive parser of src/lib.rs.                    *)
(*                                                                         *)
(* A text is a sequence of one-character strings.  A parser is an operator *)
(* of a text s and a position i (1-based, the next character to read)      *)
(* whose value is a record [ok, pos, val]: ok tells whether it matched,    *)
(* pos is the position after the match (i when it failed) and val is the   *)
(* value produced.  Integers of the program (u32, u64, i64) are wider than *)
(* the integers of the model checker, so a number is kept as the sequence  *)
(* of its decimal digit values, most significant first, without leading    *)
(* zeros (<<0>> is zero); a signed number is a record [neg, mag].          *)
(***************************************************************************)
EXTENDS Integers, Sequences, FiniteSets, TLC

VARIABLES line, origin, op, matched, result

vars == <<line, origin, op, matched, result>>

-----------------------------------------------------------------------------
(* Characters                                                              *)

Digits == <<"0", "1", "2", "3", "4", "5", "6", "7", "8", "9">>

IsDigit(c) == \E k \in 1..10 : Digits[k] = c

DigitValue(c) == (CHOOSE k \in 1..10 : Digits[k] = c) - 1

DigitChar(d) == Digits[d + 1]

IsWhitespace(c) == c \in {" ", "\t"}

Letters == {"a", "b", "c", "d", "e", "f", "g", "h", "i", "j", "k", "l", "m",
            "n", "o", "p", "q", "r", "s", "t", "u", "v", "w", "x", "y", "z",
            "A", "B", "C", "D", "E", "F", "I", "K", "L", "O", "R", "T"}

IsIdentStart(c) == c \in Letters \/ c = "_"

IsIdentContinue(c) == IsIdentStart(c) \/ IsDigit(c)

-----------------------------------------------------------------------------
(* Combinators of the parsing library, as the parsers below use them       *)

NoVal == <<>>

Fail(i) == [ok |-> FALSE, pos |-> i, val |-> NoVal]

Match(p, v) == [ok |-> TRUE, pos |-> p, val |-> v]

\* just(lit): the literal text at the position, or failure
Just(lit, s, i) ==
    IF i + Len(lit) - 1 <= Len(s) /\ SubSeq(s, i, i + Len(lit) - 1) = lit
    THEN Match(i + Len(lit), lit)
    ELSE Fail(i)

\* the position after the longest run of characters of a class starting at i
RECURSIVE DigitsEnd(_, _)
DigitsEnd(s, i) ==
    IF i <= Len(s) /\ IsDigit(s[i]) THEN DigitsEnd(s, i + 1) ELSE i

RECURSIVE WhitespaceEnd(_, _)
WhitespaceEnd(s, i) ==
    IF i <= Len(s) /\ IsWhitespace(s[i]) THEN WhitespaceEnd(s, i + 1) ELSE i

RECURSIVE IdentEnd(_, _)
IdentEnd(s, i) ==
    IF i <= Len(s) /\ IsIdentContinue(s[i]) THEN IdentEnd(s, i + 1) ELSE i

\* text::int(10).to_slice(): a non-zero digit and the digits after it, or a
\* single zero; no sign
TextInt(s, i) ==
    IF i <= Len(s) /\ IsDigit(s[i]) /\ s[i] # "0"
    THEN LET e == DigitsEnd(s, i + 1) IN Match(e, SubSeq(s, i, e - 1))
    ELSE IF i <= Len(s) /\ s[i] = "0"
         THEN Match(i + 1, <<"0">>)
         ELSE Fail(i)

\* text::whitespace(): any number of whitespace characters, none included
TextWhitespace(s, i) == Match(WhitespaceEnd(s, i), NoVal)

\* text::ident(): a letter or underscore, then letters, digits, underscores
TextIdent(s, i) ==
    IF i <= Len(s) /\ IsIdentStart(s[i])
    THEN LET e == IdentEnd(s, i + 1) IN Match(e, SubSeq(s, i, e - 1))
    ELSE Fail(i)

\* end(): matches only where no input is left
End(s, i) == IF i = Len(s) + 1 THEN Match(i, NoVal) ELSE Fail(i)

-----------------------------------------------------------------------------
(* Numbers                                                                 *)

Zero == <<0>>

\* n * 10 + d
MulAdd10(n, d) == IF n = Zero \/ n = <<>> THEN <<d>> ELSE Append(n, d)

RECURSIVE DigitwiseLE(_, _, _)
DigitwiseLE(a, b, k) ==
    IF k > Len(a) THEN TRUE
    ELSE IF a[k] # b[k] THEN a[k] < b[k]
    ELSE DigitwiseLE(a, b, k + 1)

\* a <= b
NumLE(a, b) ==
    IF Len(a) # Len(b) THEN Len(a) < Len(b) ELSE DigitwiseLE(a, b, 1)

NumLT(a, b) == NumLE(a, b) /\ a # b

RECURSIVE ModFrom(_, _, _, _)
ModFrom(n, m, k, acc) ==
    IF k > Len(n) THEN acc ELSE ModFrom(n, m, k + 1, (acc * 10 + n[k]) % m)

\* n mod m for a small m
NumMod(n, m) == ModFrom(n, m, 1, 0)

U32Max == <<4, 2, 9, 4, 9, 6, 7, 2, 9, 5>>

U64Max == <<1, 8, 4, 4, 6, 7, 4, 4, 0, 7, 3, 7, 0, 9, 5, 5, 1, 6, 1, 5>>

I64Max == <<9, 2, 2, 3, 3, 7, 2, 0, 3, 6, 8, 5, 4, 7, 7, 5, 8, 0, 7>>

I64MinMag == <<9, 2, 2, 3, 3, 7, 2, 0, 3, 6, 8, 5, 4, 7, 7, 5, 8, 0, 8>>

\* str::parse for an unsigned integer: digit by digit, with checked
\* multiplication and addition, an error on an empty text, on a character
\* that is no digit and on a value above max
RECURSIVE ParseDigitsFrom(_, _, _, _)
ParseDigitsFrom(t, k, acc, max) ==
    IF k > Len(t) THEN [ok |-> TRUE, val |-> acc]
    ELSE IF ~IsDigit(t[k]) THEN [ok |-> FALSE, val |-> NoVal]
    ELSE LET next == MulAdd10(acc, DigitValue(t[k]))
         IN  IF ~NumLE(next, max) THEN [ok |-> FALSE, val |-> NoVal]
             ELSE ParseDigitsFrom(t, k + 1, next, max)

ParseUnsigned(t, max) ==
    IF t = <<>> \/ t = <<"+">> THEN [ok |-> FALSE, val |-> NoVal]
    ELSE IF t[1] = "+" THEN ParseDigitsFrom(t, 2, Zero, max)
    ELSE ParseDigitsFrom(t, 1, Zero, max)

\* a u32 decoded with the width of a u64
ParseU32_as_u64(t) == ParseUnsigned(t, U64Max)

ParseU32(t) == ParseUnsigned(t, U32Max)

ParseU64(t) == ParseUnsigned(t, U64Max)

\* str::parse::<i64>: an optional sign, then digits
ParseI64(t) ==
    IF t # <<>> /\ t[1] = "-"
    THEN LET r == ParseDigitsFrom(t, 2, Zero, I64MinMag)
         IN  IF Len(t) = 1 \/ ~r.ok THEN [ok |-> FALSE, val |-> NoVal]
             ELSE [ok |-> TRUE, val |-> [neg |-> r.val # Zero, mag |-> r.val]]
    ELSE LET r == ParseUnsigned(t, I64Max)
         IN  IF ~r.ok THEN r
             ELSE [ok |-> TRUE, val |-> [neg |-> FALSE, mag |-> r.val]]

-----------------------------------------------------------------------------
(* Texts of the grammar                                                    *)

T_block == <<"b", "l", "o", "c", "k">>

T_char == <<"c", "h", "a", "r">>

T_dir == <<"d", "i", "r">>

T_fifo == <<"f", "i", "f", "o">>

T_file == <<"f", "i", "l", "e">>

T_link == <<"l", "i", "n", "k">>

T_socket == <<"s", "o", "c", "k", "e", "t">>

T_type == <<"t", "y", "p", "e">>

T_uid == <<"u", "i", "d">>

T_time == <<"t", "i", "m", "e">>

T_size == <<"s", "i", "z", "e">>

T_sha256 == <<"s", "h", "a", "2", "5", "6">>

T_sha256digest == T_sha256 \o <<"d", "i", "g", "e", "s", "t">>

T_set == <<"s", "e", "t">>

T_unset == <<"u", "n", "s", "e", "t">>

-----------------------------------------------------------------------------
(* The parsers                                                             *)

\* choice((just("block").to(Type::Block), ...)): the first literal that
\* matches at the position
TypeChoiceFrom(alts, s, i) ==
    LET tried == [k \in 1..Len(alts) |-> Just(alts[k][1], s, i)]
    IN  IF \E k \in 1..Len(alts) : tried[k].ok
        THEN LET k == CHOOSE k \in 1..Len(alts) :
                          tried[k].ok /\ \A j \in 1..(k - 1) : ~tried[j].ok
             IN  Match(tried[k].pos, alts[k][2])
        ELSE Fail(i)

TypeAlternatives ==
    << <<T_block, "Block">>, <<T_char, "Char">>, <<T_dir, "Dir">>,
       <<T_fifo, "Fifo">>, <<T_file, "File">>, <<T_link, "Link">>,
       <<T_socket, "Socket">> >>

\* the choice with its last alternative forgotten
parse_type_without_socket(s, i) ==
    TypeChoiceFrom(SubSeq(TypeAlternatives, 1, 6), s, i)

parse_type(s, i) == TypeChoiceFrom(TypeAlternatives, s, i)

\* the largest and the smallest number of seconds of a representable instant
MaxSecs == <<8, 2, 1, 0, 2, 6, 6, 8, 7, 6, 7, 9, 9>>

MinSecsMag == <<8, 3, 3, 4, 6, 0, 1, 3, 1, 5, 2, 0, 0>>

OneBillion == <<1, 0, 0, 0, 0, 0, 0, 0, 0, 0>>

TwoBillion == <<2, 0, 0, 0, 0, 0, 0, 0, 0, 0>>

\* secs.rem_euclid(60)
SecondOfMinute(secs) ==
    IF secs.neg THEN (60 - NumMod(secs.mag, 60)) % 60 ELSE NumMod(secs.mag, 60)

\* DateTime::from_timestamp(secs, nsecs): None when the seconds are out of
\* range or the nanoseconds are invalid; nanoseconds of 1_000_000_000 and
\* above, below 2_000_000_000, stand for a leap second and are valid when
\* the second of the minute is 59
from_timestamp(secs, nsecs) ==
    IF ~(IF secs.neg THEN NumLE(secs.mag, MinSecsMag) ELSE NumLE(secs.mag, MaxSecs))
    THEN [ok |-> FALSE, val |-> NoVal]
    ELSE IF NumLE(TwoBillion, nsecs)
            \/ (NumLE(OneBillion, nsecs) /\ SecondOfMinute(secs) # 59)
         THEN [ok |-> FALSE, val |-> NoVal]
         ELSE [ok |-> TRUE, val |-> [secs |-> secs, nanos |-> nsecs]]

\* .try_map(|s, _| s.parse().map_err(..)): the slice decoded, or failure
TryMapParsed(t, parsed, i) ==
    IF t.ok /\ parsed.ok THEN Match(t.pos, parsed.val) ELSE Fail(i)

number_i64(s, i) ==
    LET t == TextInt(s, i) IN TryMapParsed(t, ParseI64(t.val), i)

number_u32(s, i) ==
    LET t == TextInt(s, i) IN TryMapParsed(t, ParseU32(t.val), i)

number_u64(s, i) ==
    LET t == TextInt(s, i) IN TryMapParsed(t, ParseU64(t.val), i)

parse_timestamp(s, i) ==
    LET secs == number_i64(s, i)
        dot == Just(<<".">>, s, secs.pos)
        nsecs == number_u32(s, dot.pos)
        instant == from_timestamp(secs.val, nsecs.val)
    IN  IF secs.ok /\ dot.ok /\ nsecs.ok /\ instant.ok
        THEN Match(nsecs.pos, instant.val)
        ELSE Fail(i)

\* any().repeated().to_slice(): every character that is left
parse_path(s, i) == Match(Len(s) + 1, SubSeq(s, i, Len(s)))

\* just(name).ignore_then(just("=")).ignore_then(value).map(tag)
Assignment(name, value, kind, i) ==
    IF name.ok /\ value.ok THEN Match(value.pos, [kind |-> kind, val |-> value.val])
    ELSE Fail(i)

NameEq(name, s, i) ==
    LET n == Just(name, s, i)
        e == Just(<<"=">>, s, n.pos)
    IN  IF n.ok /\ e.ok THEN Match(e.pos, NoVal) ELSE Fail(i)

\* choice((just("sha256digest"), just("sha256"))), then "="
Sha256NameEq(s, i) ==
    LET long == Just(T_sha256digest, s, i)
        n == IF long.ok THEN long ELSE Just(T_sha256, s, i)
        e == Just(<<"=">>, s, n.pos)
    IN  IF n.ok /\ e.ok THEN Match(e.pos, NoVal) ELSE Fail(i)

kw_type(s, i) ==
    LET n == NameEq(T_type, s, i) IN Assignment(n, parse_type(s, n.pos), "Type", i)

kw_uid(s, i) ==
    LET n == NameEq(T_uid, s, i) IN Assignment(n, number_u32(s, n.pos), "Uid", i)

kw_time(s, i) ==
    LET n == NameEq(T_time, s, i) IN Assignment(n, parse_timestamp(s, n.pos), "Time", i)

kw_size(s, i) ==
    LET n == NameEq(T_size, s, i) IN Assignment(n, number_u64(s, n.pos), "Size", i)

kw_sha256(s, i) ==
    LET n == Sha256NameEq(s, i) IN Assignment(n, TextIdent(s, n.pos), "Sha256", i)

kw_link(s, i) ==
    LET n == NameEq(T_link, s, i) IN Assignment(n, parse_path(s, n.pos), "Link", i)

\* the only element of a set of one element: The({e(x) : x \in {v}}) is e
\* of v, with v computed once
The(S) == CHOOSE x \in S : TRUE

\* choice: the first of the alternatives that matched
FirstOk(alts) ==
    The({IF \E k \in 1..Len(a) : a[k].ok
         THEN a[CHOOSE k \in 1..Len(a) :
                    a[k].ok /\ \A j \in 1..(k - 1) : ~a[j].ok]
         ELSE a[Len(a)] : a \in {alts}})

\* the choice of the six assignments
parse_keyword(s, i) ==
    FirstOk(<<kw_type(s, i), kw_uid(s, i), kw_time(s, i), kw_size(s, i),
              kw_sha256(s, i), kw_link(s, i)>>)

\* the separator between two assignments
keyword_separator(s, i) == TextWhitespace(s, i)

\* separated_by: after the first item, a separator and an item; when either
\* fails the list ends before that separator
RECURSIVE SeparatedFrom(_, _, _)
SeparatedFrom(s, i, acc) ==
    LET sep == IF acc = <<>> THEN Match(i, NoVal) ELSE keyword_separator(s, i)
    IN  The({IF sep.ok /\ item.ok
             THEN SeparatedFrom(s, item.pos, Append(acc, item.val))
             ELSE Match(i, acc) : item \in {parse_keyword(s, sep.pos)}})

parse_keywords(s, i) == SeparatedFrom(s, i, <<>>)

unset_directive(s, i) ==
    LET w == Just(T_unset, s, i)
    IN  IF w.ok THEN Match(w.pos, [kind |-> "Unset", val |-> <<>>]) ELSE Fail(i)

set_directive(s, i) ==
    LET w == Just(T_set, s, i)
        ws == TextWhitespace(s, w.pos)
    IN  The({IF w.ok /\ ws.ok /\ ks.ok
             THEN Match(ks.pos, [kind |-> "Set", val |-> ks.val])
             ELSE Fail(i) : ks \in {parse_keywords(s, ws.pos)}})

\* just('/').ignore_then(choice((unset, set)))
command_body(s, i) ==
    LET slash == Just(<<"/">>, s, i)
    IN  The({IF slash.ok /\ c.ok THEN c ELSE Fail(i) :
             c \in {FirstOk(<<unset_directive(s, slash.pos),
                              set_directive(s, slash.pos)>>)}})

\* the command parser without its end(): what is left over is not looked at
command_end_unchecked(body, s) == Match(body.pos, NoVal)

\* .then_ignore(end())
command_end(body, s) == End(s, body.pos)

parse_command(s, i) ==
    The({IF body.ok /\ command_end(body, s).ok THEN body ELSE Fail(i) :
         body \in {command_body(s, i)}})

\* Parser::parse(text).into_result(): the parser from the start of the text,
\* and an error unless it consumed all of it
ParseAll(r, s) ==
    IF r.ok /\ r.pos = Len(s) + 1 THEN [ok |-> TRUE, val |-> r.val]
    ELSE [ok |-> FALSE, val |-> NoVal]

-----------------------------------------------------------------------------
(* The texts the parsers are applied to                                    *)

MaxTail == 4

MaxKeywords == 3

MaxNumDigits == 2

MaxLeadingZeros == 2

MaxSuffix == 1

MaxDigest == 3

SeqsUpTo(S, n) == UNION {[1..k -> S] : k \in 0..n}

RECURSIVE Flatten(_)
Flatten(ts) == IF ts = <<>> THEN <<>> ELSE Head(ts) \o Flatten(Tail(ts))

RECURSIVE Join(_, _)
Join(ts, sep) ==
    IF ts = <<>> THEN <<>>
    ELSE IF Len(ts) = 1 THEN ts[1]
    ELSE ts[1] \o sep \o Join(Tail(ts), sep)

\* the decimal text of a number
Decimal(n) == [k \in 1..Len(n) |-> DigitChar(n[k])]

SignedDecimal(z) == IF z.neg THEN <<"-">> \o Decimal(z.mag) ELSE Decimal(z.mag)

Zeros(k) == [j \in 1..k |-> "0"]

\* the numbers of at most k digits
SmallNumbers(k) ==
    {Zero} \cup {n \in SeqsUpTo(0..9, k) : n # <<>> /\ n[1] # 0}

EdgeNumbers ==
    { <<1, 0, 0>>, <<1, 2, 3, 4, 5, 6, 7, 8, 9>>,
      <<2, 1, 4, 7, 4, 8, 3, 6, 4, 8>>,
      <<4, 2, 9, 4, 9, 6, 7, 2, 9, 4>>, U32Max,
      <<4, 2, 9, 4, 9, 6, 7, 2, 9, 6>>, <<4, 2, 9, 4, 9, 6, 7, 3, 0, 0>>,
      <<5, 0, 0, 0, 0, 0, 0, 0, 0, 0>>, <<9, 9, 9, 9, 9, 9, 9, 9, 9, 9, 9>>,
      I64Max, I64MinMag, U64Max,
      <<1, 8, 4, 4, 6, 7, 4, 4, 0, 7, 3, 7, 0, 9, 5, 5, 1, 6, 1, 6>>,
      <<1, 8, 4, 4, 6, 7, 4, 4, 0, 7, 3, 7, 0, 9, 5, 5, 1, 6, 2, 0>>,
      <<2, 0, 0, 0, 0, 0, 0, 0, 0, 0, 0, 0, 0, 0, 0, 0, 0, 0, 0, 0>>,
      <<1, 0, 0, 0, 0, 0, 0, 0, 0, 0, 0, 0, 0, 0, 0, 0, 0, 0, 0, 0, 0>> }

SecondsValues ==
    { Zero, <<1>>, <<5, 9>>, <<6, 0>>, <<1, 1, 9>>,
      <<1, 6, 3, 0, 4, 5, 6, 8, 0, 0>>, <<1, 7, 6, 9, 6, 4, 0, 3, 7, 3>>,
      MaxSecs, <<8, 2, 1, 0, 2, 6, 6, 8, 7, 6, 8, 0, 0>>, I64Max, I64MinMag }

NanosValues ==
    { Zero, <<5>>, <<1, 2, 5, 2, 6, 5, 9, 7>>, <<4, 1, 2, 5, 2, 6, 5, 9, 7>>,
      <<9, 9, 9, 9, 9, 9, 9, 9, 9>>, OneBillion,
      <<1, 5, 0, 0, 0, 0, 0, 0, 0, 0>>, <<1, 9, 9, 9, 9, 9, 9, 9, 9, 9>>,
      TwoBillion, U32Max, <<4, 2, 9, 4, 9, 6, 7, 2, 9, 6>> }

K_type_dir == T_type \o <<"=">> \o T_dir

K_uid_7 == T_uid \o <<"=", "7">>

K_uid_big == T_uid \o <<"=", "9", "9", "9", "9", "9", "9", "9", "9", "9", "9", "9">>

K_time == T_time \o <<"=", "1", ".", "5">>

K_size_384 == T_size \o <<"=", "3", "8", "4">>

K_sha256 == T_sha256 \o <<"=", "a", "b">>

K_sha256digest == T_sha256digest \o <<"=", "a", "b">>

K_link_a == T_link \o <<"=", "a">>

KeywordTexts ==
    {K_type_dir, K_uid_7, K_time, K_size_384, K_sha256, K_sha256digest, K_link_a}

Separators == { <<>>, <<" ">>, <<" ", "\t">> }

CommandHeads == { <<"/">> \o T_set, <<"/">> \o T_unset, T_set }

CommandPieces == { <<" ">>, K_type_dir, <<"x">>, K_uid_big, K_link_a }

TypeLiterals == {T_block, T_char, T_dir, T_fifo, T_file, T_link, T_socket}

SuffixChars == {"x", "k", "e", " "}

OtherCase ==
    { <<"D", "i", "r">>, <<"D", "I", "R">>, <<"B", "l", "o", "c", "k">>,
      <<"F", "I", "F", "O">>, <<"s", "o", "c", "k", "e", "T">> }

TypeTexts ==
    UNION {{SubSeq(lit, 1, k) \o x :
                k \in 0..Len(lit), x \in SeqsUpTo(SuffixChars, MaxSuffix)} :
            lit \in TypeLiterals}
    \cup OtherCase

HexChars == {"0", "9", "a", "f"}

CommandInputs ==
    {[line |-> i.head \o Flatten(i.tail),
      origin |-> [family |-> "command", head |-> i.head, tail |-> i.tail]] :
        i \in [head : CommandHeads, tail : SeqsUpTo(CommandPieces, MaxTail)]}

KeywordsInputs ==
    {[line |-> Join(i.kws, i.sep),
      origin |-> [family |-> "keywords", kws |-> i.kws, sep |-> i.sep]] :
        i \in [kws : SeqsUpTo(KeywordTexts, MaxKeywords), sep : Separators]}

UintInputs ==
    {[line |-> i.name \o <<"=">> \o Decimal(i.n),
      origin |-> [family |-> "uint", name |-> i.name, n |-> i.n]] :
        i \in [name : {T_uid, T_size},
               n : SmallNumbers(MaxNumDigits) \cup EdgeNumbers]}

TimeInputs ==
    {[line |-> (IF i.keyword THEN T_time \o <<"=">> ELSE <<>>)
                 \o SignedDecimal(i.secs) \o <<".">>
                 \o Zeros(i.zeros) \o Decimal(i.nanos),
      origin |-> [family |-> "time", keyword |-> i.keyword, secs |-> i.secs,
                  zeros |-> i.zeros, nanos |-> i.nanos]] :
        i \in [keyword : BOOLEAN,
               secs : {z \in [neg : BOOLEAN, mag : SecondsValues] :
                          z.neg => z.mag # Zero},
               zeros : 0..MaxLeadingZeros,
               nanos : NanosValues]}

TypeInputs ==
    {[line |-> T_type \o <<"=">> \o t,
      origin |-> [family |-> "type", text |-> t]] : t \in TypeTexts}

ShaInputs ==
    {[line |-> i.name \o <<"=">> \o i.digest,
      origin |-> [family |-> "sha256", name |-> i.name, digest |-> i.digest]] :
        i \in [name : {T_sha256, T_sha256digest},
               digest : SeqsUpTo(HexChars, MaxDigest)]}

Inputs ==
    CommandInputs \cup KeywordsInputs \cup UintInputs \cup TimeInputs
        \cup TypeInputs \cup ShaInputs

-----------------------------------------------------------------------------
(* The state machine: a text is chosen (line; origin tells how it was      *)
(* built) and one of the parsers is applied to it: matched is what the     *)
(* parser itself yields from the start of the text, result what            *)
(* parse(text).into_result() makes of it                                   *)

NoResult == [ok |-> FALSE, val |-> NoVal]

Init ==
    /\ \E i \in Inputs : line = i.line /\ origin = i.origin
    /\ op = "none"
    /\ matched = Fail(1)
    /\ result = NoResult

ParseType ==
    /\ op = "none"
    /\ op' = "parse_type"
    /\ matched' = parse_type(line, 1)
    /\ result' = ParseAll(matched', line)
    /\ UNCHANGED <<line, origin>>

ParseTimestamp ==
    /\ op = "none"
    /\ op' = "parse_timestamp"
    /\ matched' = parse_timestamp(line, 1)
    /\ result' = ParseAll(matched', line)
    /\ UNCHANGED <<line, origin>>

ParsePath ==
    /\ op = "none"
    /\ op' = "parse_path"
    /\ matched' = parse_path(line, 1)
    /\ result' = ParseAll(matched', line)
    /\ UNCHANGED <<line, origin>>

ParseKeyword ==
    /\ op = "none"
    /\ op' = "parse_keyword"
    /\ matched' = parse_keyword(line, 1)
    /\ result' = ParseAll(matched', line)
    /\ UNCHANGED <<line, origin>>

ParseKeywords ==
    /\ op = "none"
    /\ op' = "parse_keywords"
    /\ matched' = parse_keywords(line, 1)
    /\ result' = ParseAll(matched', line)
    /\ UNCHANGED <<line, origin>>

ParseCommand ==
    /\ op = "none"
    /\ op' = "parse_command"
    /\ matched' = parse_command(line, 1)
    /\ result' = ParseAll(matched', line)
    /\ UNCHANGED <<line, origin>>

Next ==
    \/ ParseType
    \/ ParseTimestamp
    \/ ParsePath
    \/ ParseKeyword
    \/ ParseKeywords
    \/ ParseCommand

Spec == Init /\ [][Next]_vars

-----------------------------------------------------------------------------
(* The claims                                                              *)

\* C1: parse_command matches a line only when the grammar has consumed all
\* of it: when characters are left after a well-formed "/unset" or
\* "/set <keywords>" the outcome is a failure, never the command of the
\* well-formed prefix.
C1_EntireLineConsumed ==
    op = "parse_command" =>
        LET body == command_body(line, 1)
        IN  /\ matched.ok =>
                /\ matched.pos = Len(line) + 1
                /\ result.ok
                /\ result.val = body.val
            /\ (body.ok /\ body.pos <= Len(line)) => (~matched.ok /\ ~result.ok)

\* C1, its case: "/set type=dir x" has the well-formed prefix
\* "/set type=dir" and is rejected
C1_Witness ==
    /\ op = "parse_command"
    /\ origin.family = "command"
    /\ origin.head = <<"/">> \o T_set
    /\ origin.tail = << <<" ">>, K_type_dir, <<" ">>, <<"x">> >>
    /\ command_body(line, 1).ok
    /\ command_body(line, 1).pos = 14
    /\ ~matched.ok
    /\ ~result.ok

\* C2: every Command::Set that parse_command returns carries at least one
\* keyword ("/set" with no keyword after it fails).
C2_SetHasKeyword ==
    (op = "parse_command" /\ result.ok /\ result.val.kind = "Set")
        => result.val.val # <<>>

\* C3: whitespace is a mandatory separator: parse_keywords fails on two or
\* more assignments joined with nothing between them (assignments other
\* than link, whose value takes in whatever follows), and parse_command
\* fails when an assignment follows the word "set" immediately.
C3_WhitespaceMandatory ==
    /\ ( /\ op = "parse_keywords"
         /\ origin.family = "keywords"
         /\ origin.sep = <<>>
         /\ Len(origin.kws) >= 2
         /\ \A k \in 1..Len(origin.kws) : origin.kws[k] # K_link_a )
       => ~result.ok
    /\ ( /\ op = "parse_command"
         /\ origin.family = "command"
         /\ origin.head = <<"/">> \o T_set
         /\ origin.tail # <<>>
         /\ origin.tail[1] = K_type_dir )
       => ~result.ok

\* C4: for a list of individually valid keyword texts joined by whitespace,
\* parse_keywords yields as many fields as texts, the i-th being the field
\* parse_keyword yields for the i-th text alone.
C4_SourceOrderKept ==
    ( /\ op = "parse_keywords"
      /\ origin.family = "keywords"
      /\ origin.sep # <<>> )
    => /\ result.ok
       /\ result.val =
            [k \in 1..Len(origin.kws) |->
                ParseAll(parse_keyword(origin.kws[k], 1), origin.kws[k]).val]

\* C5: the nanosecond component of every decoded Time is below
\* 1_000_000_000.
C5_NanosecondsInRange ==
    /\ (op = "parse_timestamp" /\ origin.family = "time" /\ result.ok)
       => NumLT(result.val.nanos, OneBillion)
    /\ (op = "parse_keyword" /\ origin.family = "time" /\ result.ok)
       => NumLT(result.val.val.nanos, OneBillion)

\* C6: for signed seconds of a representable instant, negative ones
\* included, and nanoseconds below 1_000_000_000, decoding
\* "time=" + decimal(seconds) + "." + decimal(nanoseconds) yields exactly
\* that instant.
C6_TimeRoundTrip ==
    ( /\ op = "parse_keyword"
      /\ origin.family = "time"
      /\ origin.keyword
      /\ origin.zeros = 0
      /\ NumLT(origin.nanos, OneBillion)
      /\ IF origin.secs.neg THEN NumLE(origin.secs.mag, MinSecsMag)
                            ELSE NumLE(origin.secs.mag, MaxSecs) )
    => /\ result.ok
       /\ result.val =
            [kind |-> "Time",
             val |-> [secs |-> origin.secs, nanos |-> origin.nanos]]

\* C7: "uid=" + decimal(n) decodes to Uid(n) for n up to 2^32 - 1 and
\* "size=" + decimal(n) to Size(n) for n up to 2^64 - 1; above the width the
\* decoding fails.
C7_UnsignedDecode ==
    (op = "parse_keyword" /\ origin.family = "uint") =>
        IF origin.name = T_uid
        THEN IF NumLE(origin.n, U32Max)
             THEN result.ok /\ result.val = [kind |-> "Uid", val |-> origin.n]
             ELSE ~result.ok
        ELSE IF NumLE(origin.n, U64Max)
             THEN result.ok /\ result.val = [kind |-> "Size", val |-> origin.n]
             ELSE ~result.ok

\* C7, its case: "uid=4294967296", one above the largest u32, is rejected
C7_Witness ==
    /\ op = "parse_keyword"
    /\ origin.family = "uint"
    /\ origin.name = T_uid
    /\ origin.n = <<4, 2, 9, 4, 9, 6, 7, 2, 9, 6>>
    /\ line = T_uid \o <<"=", "4", "2", "9", "4", "9", "6", "7", "2", "9", "6">>
    /\ ~result.ok

\* C8: for a digest d of lowercase hexadecimal characters, "sha256=" + d and
\* "sha256digest=" + d both decode to Sha256(d).
C8_Sha256BothSpellings ==
    ( /\ op = "parse_keyword"
      /\ origin.family = "sha256"
      /\ origin.digest # <<>> )
    => /\ result.ok
       /\ result.val = [kind |-> "Sha256", val |-> origin.digest]

\* C9: "type=" + text decodes to the Type of the entry type when text is one
\* of the seven literals, and fails for every other text.
C9_TypeLiterals ==
    (op = "parse_keyword" /\ origin.family = "type") =>
        LET expected ==
                [t \in TypeLiterals |->
                    CASE t = T_block -> "Block"
                      [] t = T_char -> "Char"
                      [] t = T_dir -> "Dir"
                      [] t = T_fifo -> "Fifo"
                      [] t = T_file -> "File"
                      [] t = T_link -> "Link"
                      [] t = T_socket -> "Socket"]
        IN  IF origin.text \in TypeLiterals
            THEN /\ result.ok
                 /\ result.val = [kind |-> "Type", val |-> expected[origin.text]]
            ELSE ~result.ok

\* C9, its case: "type=socket" is decoded to Type(Socket)
C9_Witness ==
    /\ op = "parse_keyword"
    /\ origin.family = "type"
    /\ origin.text = T_socket
    /\ result.ok
    /\ result.val = [kind |-> "Type", val |-> "Socket"]

\* C10: the timestamp decoder accepts any non-empty run of digits for the
\* nanoseconds, runs with leading zeros included: for seconds s and a run
\* of value n below 1_000_000_000 the outcome is the instant s seconds +
\* n nanoseconds.
C10_LeadingZerosAccepted ==
    ( /\ op = "parse_timestamp"
      /\ origin.family = "time"
      /\ ~origin.keyword
      /\ ~origin.secs.neg
      /\ NumLE(origin.secs.mag, MaxSecs)
      /\ NumLT(origin.nanos, OneBillion) )
    => /\ result.ok
       /\ result.val = [secs |-> origin.secs, nanos |-> origin.nanos]

====
